---------------------------- MODULE Spec2Model ----------------------------
(***************************************************************************)
(* The bcdaworker queue consumer (bcdaworker/queueing/manager/que.go) and  *)
(* the job worker (bcdaworker/worker/worker.go): one parent export job,    *)
(* its queue entries, one cancellation monitor per delivery, the staging   *)
(* and payload directories, and an external canceller.                     *)
(*                                                                         *)
(* Every call that reads or writes the JobStore or the file system is one  *)
(* atomic step of the entry that makes it; calls that touch no shared      *)
(* state are folded into the step that follows them.                       *)
(***************************************************************************)
EXTENDS Integers, Sequences, FiniteSets, TLC

(***************************************************************************)
(* Bounds of the model.                                                    *)
(***************************************************************************)
\* Deliveries, over all entries, of an entry that already ran ProcessJob.
MaxRedeliveries == 1
\* Injected JobStore and file-system errors in one behaviour.
MaxFaults == 1

(***************************************************************************)
(* The parent job of the scenario and program constants.                   *)
(***************************************************************************)
\* models.Job.JobCount of the parent: the number of queue entries it was
\* split into.
JobCount == 2
\* utils.GetEnvInt("BCDA_WORKER_MAX_JOB_NOT_FOUND_RETRIES", 3)
maxNotFoundRetries == 3
\* getFailureThreshold's default when EXPORT_FAIL_PCT is not a number.
DefaultFailPct == 50

Entries == 1..JobCount

JobStatusPending == "Pending"
JobStatusInProgress == "In Progress"
JobStatusCompleted == "Completed"
JobStatusCancelled == "Cancelled"
JobStatusFailed == "Failed"
\* No row for the parent job: GetJobByID answers ErrJobNotFound.
NoJob == "NotFound"
\* A delivery that has not read the parent in checkJobCompleteAndCleanup.
NotRead == ""

\* The switch of checkJobCompleteAndCleanup without its Completed case.
isTerminalStatusNoCompleted(s) == s \in {JobStatusCancelled, JobStatusFailed}

\* isTerminalStatus of the queue tests.
isTerminalStatus(s) ==
    s \in {JobStatusCompleted, JobStatusCancelled, JobStatusFailed}

\* A value of conf.GetEnv as strconv.Atoi sees it: a number, or a string
\* (the empty one when the variable is unset) that Atoi rejects.
EnvNumber(n) == [numeric |-> TRUE, n |-> n]
EnvNotANumber == [numeric |-> FALSE, n |-> 0]

\* getFailureThreshold: strconv.Atoi fails -> 50, else clamped to [0,100].
getFailureThreshold(v) ==
    IF ~v.numeric THEN DefaultFailPct
    ELSE IF v.n < 0 THEN 0
    ELSE IF v.n > 100 THEN 100
    ELSE v.n

(***************************************************************************)
(* models.JobEnqueueArgs as carried by que.Job.Args.  decodable is whether *)
(* json.Unmarshal succeeds; supported is whether ResourceType is one of    *)
(* Coverage, ExplanationOfBenefit, Patient.  JobArgs gives a list of n     *)
(* beneficiaries of whom nothing is known.                                 *)
(***************************************************************************)
AnyBeneficiary == "any"

JobArgs(d, b, s, n) ==
    [decodable |-> d, BBBasePath |-> b, supported |-> s,
     BeneficiaryIDs |-> [i \in 1..n |-> AnyBeneficiary]]

ArgVariants ==
    {JobArgs(FALSE, "", FALSE, 0), JobArgs(TRUE, "", TRUE, 0),
     JobArgs(TRUE, "bb", FALSE, 0)}
    \cup {JobArgs(TRUE, "bb", TRUE, n) : n \in {0, 1}}

VARIABLES
    status,             \* jobs.status of the parent (NoJob: no row)
    completedJobCount,  \* jobs.completed_job_count
    jobKeys,            \* rows of job_keys of the parent
    staging,            \* files in FHIR_STAGING_DIR/<id>
    payload,            \* files in FHIR_PAYLOAD_DIR/<id>
    stagingDir,         \* whether FHIR_STAGING_DIR/<id> exists
    payloadDir,         \* whether FHIR_PAYLOAD_DIR/<id> exists
    args,               \* que.Job.Args of each entry
    ExportFailPct,      \* conf.GetEnv("EXPORT_FAIL_PCT") of the worker
    monitors,           \* monitor goroutines of each entry that have not returned
    errorCount,         \* que.Job.ErrorCount of each entry
    pc,                 \* where each entry is: queued, a step of processJob, acked
    attempts,           \* ProcessJob invocations of each entry so far
    redeliveries,       \* deliveries of entries that had run ProcessJob before
    faults,             \* injected errors so far
    cancelled,          \* the delivery's monitor called cancel() on its ctx
    idx,                \* beneficiaries of the list already handled
    errs,               \* writeBBDataToFile's errorCount
    lines,              \* the lines written to the delivery's ndjson file
    failed,             \* writeBBDataToFile's failed
    listing,            \* files of ioutil.ReadDir(staging) still to rename
    j                   \* j.Status as checkJobCompleteAndCleanup read it

shared == <<status, completedJobCount, jobKeys, staging, payload, stagingDir, payloadDir>>
delivery == <<cancelled, idx, errs, lines, failed, listing, j>>
vars == <<status, completedJobCount, jobKeys, staging, payload, stagingDir,
          payloadDir, args, ExportFailPct, monitors, errorCount, pc, attempts,
          redeliveries, faults, cancelled, idx, errs, lines, failed, listing, j>>

\* The steps of one delivery, from processJob's ValidateJob call on.
InFlight ==
    {"validate", "start", "mkdirs", "create", "loop", "flush", "recordFail",
     "recordKey", "check", "count", "readdir", "rename", "rmdir", "complete",
     "incr"}

\* pc of an entry the admitter never enqueued.
NoEntry == "none"

\* jobs.job_count of the parent: the number of queue entries the admitter
\* split it into.
jobCount == Cardinality({e \in Entries : pc[e] # NoEntry})

\* The steps of checkJobCompleteAndCleanup after the count check passed.
Promoting == {"readdir", "rename", "rmdir", "complete"}

(***************************************************************************)
(* Files.  uuid.New() of a delivery is the pair (entry, attempt); a        *)
(* delivery writes <uuid>.ndjson and appends to <uuid>-error.ndjson.       *)
(***************************************************************************)
DataFile(e, a) == [entry |-> e, attempt |-> a, error |-> FALSE]
ErrorFile(e, a) == [entry |-> e, attempt |-> a, error |-> TRUE]

\* ioutil.ReadDir sorts by file name: "<u>-error.ndjson" < "<u>.ndjson".
FileBefore(f, g) ==
    \/ f.entry < g.entry
    \/ f.entry = g.entry /\ f.attempt < g.attempt
    \/ f.entry = g.entry /\ f.attempt = g.attempt /\ f.error /\ ~g.error

FirstFile(S) == CHOOSE f \in S : \A g \in S \ {f} : FileBefore(f, g)

(***************************************************************************)
(* JobStore (bcdaworker/repository).                                       *)
(***************************************************************************)
\* UpdateJobStatusCheckStatus: the row is updated iff its status is cur;
\* otherwise ErrJobNotUpdated.
JobUpdated(cur) == status = cur
UpdateJobStatusCheckStatus(cur, new) == IF status = cur THEN new ELSE status

\* UpdateJobStatus: unconditional.
UpdateJobStatus(new) == new

\* GetJobKeyCount
GetJobKeyCount == Cardinality(jobKeys)

\* The JobKey without the fileSize == 0 case of line 113.
JobKeyNeverBlank(e, a, blank) == [entry |-> e, attempt |-> a, blank |-> FALSE]

\* models.JobKey of a delivery; FileName is BlankFileName for an empty file.
JobKey(e, a, blank) == [entry |-> e, attempt |-> a, blank |-> blank]

(***************************************************************************)
(* Initial state: the parent job as the admitter created it (or no row at  *)
(* all), every entry enqueued.                                             *)
(***************************************************************************)
Init ==
    /\ status \in {JobStatusPending, NoJob}
    /\ completedJobCount = 0
    /\ jobKeys = {}
    /\ staging = {}
    /\ payload = {}
    /\ stagingDir = FALSE
    /\ payloadDir = FALSE
    /\ args \in [Entries -> ArgVariants]
    /\ ExportFailPct = EnvNotANumber
    /\ monitors = [e \in Entries |-> 0]
    /\ errorCount = [e \in Entries |-> 0]
    /\ pc = [e \in Entries |-> "queued"]
    /\ attempts = [e \in Entries |-> 0]
    /\ redeliveries = 0
    /\ faults = 0
    /\ cancelled = [e \in Entries |-> FALSE]
    /\ idx = [e \in Entries |-> 0]
    /\ errs = [e \in Entries |-> 0]
    /\ lines = [e \in Entries |-> <<>>]
    /\ failed = [e \in Entries |-> FALSE]
    /\ listing = [e \in Entries |-> {}]
    /\ j = [e \in Entries |-> NotRead]

(***************************************************************************)
(* processJob's return.  nil: que-go deletes the entry.  An error: que-go  *)
(* increments error_count and reschedules it.  The deferred cancel() ends  *)
(* the delivery's context either way.                                      *)
(***************************************************************************)
\* The delivery's variables die with it.
Forget(e) ==
    /\ cancelled' = [cancelled EXCEPT ![e] = FALSE]
    /\ idx' = [idx EXCEPT ![e] = 0]
    /\ errs' = [errs EXCEPT ![e] = 0]
    /\ lines' = [lines EXCEPT ![e] = <<>>]
    /\ failed' = [failed EXCEPT ![e] = FALSE]
    /\ listing' = [listing EXCEPT ![e] = {}]
    /\ j' = [j EXCEPT ![e] = NotRead]

\* The same with a queue that reschedules without counting the error.
ReturnUncounted(e, out) ==
    /\ pc' = [pc EXCEPT ![e] = IF out = "Ack" THEN "acked" ELSE "queued"]
    /\ UNCHANGED errorCount
    /\ Forget(e)

Return(e, out) ==
    /\ pc' = [pc EXCEPT ![e] = IF out = "Ack" THEN "acked" ELSE "queued"]
    /\ errorCount' = [errorCount EXCEPT ![e] = IF out = "Ack" THEN @ ELSE @ + 1]
    /\ Forget(e)

\* The delivery goes on with `step`.
Goto(e, step) ==
    /\ pc' = [pc EXCEPT ![e] = step]
    /\ UNCHANGED errorCount

\* The same, none of the delivery's variables changed.
Continue(e, step) ==
    /\ Goto(e, step)
    /\ UNCHANGED delivery

(***************************************************************************)
(* que.go processJob, lines 89-123: decode, start the monitor.             *)
(***************************************************************************)
\* A worker of the pool locks the entry.  Args that do not decode: return
\* nil before the monitor is started.  An entry that already ran ProcessJob
\* is delivered again only within MaxRedeliveries, and any entry only
\* after the queue's back-off of seconds, when the goroutine of its last
\* delivery, woken by the deferred cancel(), has returned.
\* The same without the return on json.Unmarshal's error.
DequeueNoDecodeCheck(e) ==
    /\ pc[e] = "queued"
    /\ attempts[e] > 0 => redeliveries < MaxRedeliveries
    /\ monitors[e] = 0
    /\ redeliveries' = IF attempts[e] > 0 THEN redeliveries + 1 ELSE redeliveries
    /\ pc' = [pc EXCEPT ![e] = "validate"]
    /\ monitors' = [monitors EXCEPT ![e] = @ + 1]
    /\ UNCHANGED <<shared, delivery, args, ExportFailPct, errorCount, attempts, faults>>

Dequeue(e) ==
    /\ pc[e] = "queued"
    /\ attempts[e] > 0 => redeliveries < MaxRedeliveries
    /\ monitors[e] = 0
    /\ redeliveries' = IF attempts[e] > 0 THEN redeliveries + 1 ELSE redeliveries
    /\ pc' = [pc EXCEPT ![e] = IF args[e].decodable THEN "validate" ELSE "acked"]
    /\ monitors' = [monitors EXCEPT ![e] = IF args[e].decodable THEN @ + 1 ELSE @]
    /\ UNCHANGED <<shared, delivery, args, ExportFailPct, errorCount, attempts, faults>>

(***************************************************************************)
(* worker.go ValidateJob, lines 43-60, and processJob's dispatch on its    *)
(* error, que.go lines 125-149.                                            *)
(***************************************************************************)
\* ValidateJob with the parent looked up before the base path is checked.
ValidateJobLookupFirst(e) ==
    IF status = NoJob THEN "ErrParentJobNotFound"
    ELSE IF args[e].BBBasePath = "" THEN "ErrNoBasePathSet"
    ELSE IF status = JobStatusCancelled THEN "ErrParentJobCancelled"
    ELSE "nil"

ValidateJob(e) ==
    IF args[e].BBBasePath = "" THEN "ErrNoBasePathSet"
    ELSE IF status = NoJob THEN "ErrParentJobNotFound"
    ELSE IF status = JobStatusCancelled THEN "ErrParentJobCancelled"
    ELSE "nil"

Validate(e) ==
    /\ pc[e] = "validate"
    /\ LET err == ValidateJob(e) IN
       CASE err = "ErrParentJobCancelled" -> Return(e, "Ack")
         [] err = "ErrNoBasePathSet" -> Return(e, "Ack")
         [] err = "ErrParentJobNotFound" ->
                IF errorCount[e] >= maxNotFoundRetries
                THEN Return(e, "Ack")
                ELSE Return(e, "Retry")
         [] OTHER -> Continue(e, "start")
    /\ UNCHANGED <<shared, args, ExportFailPct, monitors, attempts, redeliveries, faults>>

(***************************************************************************)
(* worker.go ProcessJob, lines 62-97.                                      *)
(***************************************************************************)
\* GetACOByUUID, the Pending -> In Progress update (ErrJobNotUpdated is
\* logged and ignored), NewBlueButtonClient.
StartProcess(e) ==
    /\ pc[e] = "start"
    /\ status' = UpdateJobStatusCheckStatus(JobStatusPending, JobStatusInProgress)
    /\ attempts' = [attempts EXCEPT ![e] = @ + 1]
    /\ Continue(e, "mkdirs")
    /\ UNCHANGED <<completedJobCount, jobKeys, staging, payload, stagingDir,
                   payloadDir, args, ExportFailPct, monitors, redeliveries, faults>>

\* createDir(stagingPath); createDir(payloadPath)
MkDirs(e) ==
    /\ pc[e] = "mkdirs"
    /\ stagingDir' = TRUE
    /\ payloadDir' = TRUE
    /\ Continue(e, "create")
    /\ UNCHANGED <<status, completedJobCount, jobKeys, staging, payload, args, ExportFailPct, monitors,
                   attempts, redeliveries, faults>>

(***************************************************************************)
(* worker.go writeBBDataToFile, lines 140-250.                             *)
(***************************************************************************)
\* The step after the range loop handled `done` beneficiaries.
AfterBene(e, done, stop) ==
    IF stop \/ done = Len(args[e].BeneficiaryIDs) THEN "flush" ELSE "loop"

\* The ResourceType switch and os.Create of <staging>/<id>/<uuid>.ndjson.
\* Both failures return before the loop, with no file.
CreateFile(e) ==
    /\ pc[e] = "create"
    /\ IF args[e].supported /\ stagingDir
       THEN /\ staging' = staging \cup {DataFile(e, attempts[e])}
            /\ Continue(e, AfterBene(e, 0, FALSE))
       ELSE /\ Continue(e, "recordFail")
            /\ UNCHANGED staging
    /\ UNCHANGED <<status, completedJobCount, jobKeys, payload, stagingDir,
                   payloadDir, args, ExportFailPct, monitors, attempts, redeliveries, faults>>

\* Line 196: ctx.Err() == context.Canceled at the top of an iteration.
LoopCancelled(e) ==
    /\ pc[e] = "loop"
    /\ cancelled[e]
    /\ failed' = [failed EXCEPT ![e] = TRUE]
    /\ Goto(e, "flush")
    /\ UNCHANGED <<shared, cancelled, idx, errs, lines, listing, j, args, ExportFailPct, monitors,
                   attempts, redeliveries, faults>>

(***************************************************************************)
(* float64 arithmetic of line 226, (float64(errorCount) / totalBeneIDs) *  *)
(* 100, on bit sequences (most significant bit first): IEEE 754 binary64   *)
(* keeps 53 significant bits and rounds to nearest, ties to even, after    *)
(* the division and again after the multiplication.                        *)
(***************************************************************************)
MantissaBits == 53

RECURSIVE LeadingZeros(_, _)
\* Zero bits of r/d (0 < r < d) after the binary point before its first 1.
LeadingZeros(r, d) == IF 2 * r >= d THEN 0 ELSE 1 + LeadingZeros(2 * r, d)

RECURSIVE DivBits(_, _, _)
\* The next k bits of the binary expansion of r/d, r < d.
DivBits(r, d, k) ==
    IF k = 0 THEN <<>>
    ELSE LET b == IF 2 * r >= d THEN 1 ELSE 0
         IN <<b>> \o DivBits(2 * r - b * d, d, k - 1)

RECURSIVE DivRem(_, _, _)
\* The remainder left after those k bits.
DivRem(r, d, k) ==
    IF k = 0 THEN r
    ELSE DivRem(2 * r - (IF 2 * r >= d THEN d ELSE 0), d, k - 1)

RECURSIVE Reverse(_)
Reverse(b) == IF b = <<>> THEN <<>> ELSE Reverse(Tail(b)) \o <<Head(b)>>

RECURSIVE IncRev(_)
\* b + 1, least significant bit first.
IncRev(b) ==
    IF b = <<>> THEN <<1>>
    ELSE IF Head(b) = 0 THEN <<1>> \o Tail(b)
    ELSE <<0>> \o IncRev(Tail(b))

RECURSIVE MulRev(_, _, _)
\* b * c + carry, least significant bit first.
MulRev(b, c, carry) ==
    IF b = <<>>
    THEN IF carry = 0 THEN <<>> ELSE <<carry % 2>> \o MulRev(b, c, carry \div 2)
    ELSE LET v == Head(b) * c + carry
         IN <<v % 2>> \o MulRev(Tail(b), c, v \div 2)

RECURSIVE BitsValue(_)
\* The number a short bit sequence (most significant first) stands for.
BitsValue(b) ==
    IF b = <<>> THEN 0 ELSE 2 * BitsValue(SubSeq(b, 1, Len(b) - 1)) + b[Len(b)]

\* Round the bits b (leading bit 1, at least 53 of them) to 53 bits: up
\* when the cut-off part is above half, or is half and the kept part is
\* odd; `more` says that non-zero bits follow b.  The result is the kept
\* bits and the number of bits dropped (one more when the carry made a
\* 54th bit).
RoundBits(b, more) ==
    LET kept == SubSeq(b, 1, MantissaBits)
        cut == SubSeq(b, MantissaBits + 1, Len(b))
        rest == IF cut = <<>> THEN <<>> ELSE Tail(cut)
        sticky == more \/ \E i \in 1..Len(rest) : rest[i] = 1
        up == /\ cut # <<>>
              /\ Head(cut) = 1
              /\ sticky \/ kept[MantissaBits] = 1
        inc == Reverse(IncRev(Reverse(kept)))
    IN IF ~up THEN [bits |-> kept, dropped |-> Len(cut)]
       ELSE IF Len(inc) > MantissaBits
            THEN [bits |-> SubSeq(inc, 1, MantissaBits), dropped |-> Len(cut) + 1]
            ELSE [bits |-> inc, dropped |-> Len(cut)]

\* The whole part of failPct, the float64 (float64(n) / float64(total)) * 100,
\* for 0 <= n <= total, total > 0.  Against a whole threshold, failPct >=
\* threshold iff that whole part >= threshold.
failPctFloor(n, total) ==
    IF n = 0 THEN 0
    ELSE IF n = total THEN 100
    ELSE LET z == LeadingZeros(n, total)
             r == DivRem(n, total, z)
             \* the quotient: 54 bits, the last one the rounding bit
             q == RoundBits(DivBits(r, total, MantissaBits + 1),
                            DivRem(r, total, MantissaBits + 1) # 0)
             \* q.bits stand for q.bits * 2^-(z + 54 - q.dropped)
             prod == Reverse(MulRev(Reverse(q.bits), 100, 0))
             p == RoundBits(prod, FALSE)
             \* p.bits stand for p.bits * 2^-(frac)
             frac == z + MantissaBits + 1 - q.dropped - p.dropped
         IN IF frac >= MantissaBits THEN 0
            ELSE BitsValue(SubSeq(p.bits, 1, MantissaBits - frac))

\* The comparison of line 227 written with > for >=.
ThresholdExceeded(n, total) ==
    n * 100 > getFailureThreshold(ExportFailPct) * total

\* failPct >= failThreshold, lines 226-227, for errorCount n of total.
ThresholdReached(n, total) ==
    failPctFloor(n, total) >= getFailureThreshold(ExportFailPct)

(***************************************************************************)
(* The upstream.  A lookup or the upstream call fails, or the call gives a *)
(* bundle: a sequence of entries, each holding a resource or none.  What a *)
(* beneficiary gets is fixed for the ids a, b and x; for AnyBeneficiary    *)
(* it is an error or a bundle of one resource.                             *)
(***************************************************************************)
NoResource == "nil"
BundleError == [err |-> TRUE, Entries |-> <<>>]
Bundle(entries) == [err |-> FALSE, Entries |-> entries]

BeneficiaryIDs == {AnyBeneficiary, "a", "b", "x"}

\* bundleFunc(bene.BlueButtonID) of lines 201-219, with the lookups before it.
bundleFunc(id) ==
    CASE id = "a" -> {Bundle(<<"a1", NoResource, "a2">>)}
      [] id = "b" -> {Bundle(<<"b1">>)}
      [] id = "x" -> {BundleError}
      [] OTHER -> {BundleError, Bundle(<<"resource">>)}

\* The loop of fhirBundleToResourceNDJSON written without its test for an
\* entry that has no resource.
RECURSIVE WriteEveryEntry(_, _)
WriteEveryEntry(w, entries) ==
    IF entries = <<>> THEN w
    ELSE WriteEveryEntry(Append(w, Head(entries)), Tail(entries))

\* The range over b.Entries, lines 317-336: an entry without a resource is
\* skipped, the others are written in turn.
RECURSIVE WriteEntries(_, _)
WriteEntries(w, entries) ==
    IF entries = <<>> THEN w
    ELSE IF Head(entries) = NoResource THEN WriteEntries(w, Tail(entries))
    ELSE WriteEntries(Append(w, Head(entries)), Tail(entries))

\* fhirBundleToResourceNDJSON is called only when no lookup failed (line 217).
fhirBundleToResourceNDJSON(w, b) ==
    IF b.err THEN w ELSE WriteEntries(w, b.Entries)

\* appendErrorToFile: os.OpenFile(O_APPEND|O_CREATE) of <uuid>-error.ndjson;
\* without the staging directory the open fails and is only logged.
appendErrorToFile(e) ==
    IF stagingDir THEN staging \cup {ErrorFile(e, attempts[e])} ELSE staging

\* One iteration, lines 201-230.  res is what the lookups and the upstream
\* call give for the beneficiary: an error, or a bundle.
LoopBene(e, res) ==
    /\ pc[e] = "loop"
    /\ ~cancelled[e]
    /\ res \in bundleFunc(args[e].BeneficiaryIDs[idx[e] + 1])
    /\ LET n == IF res.err THEN errs[e] + 1 ELSE errs[e]
           stop == ThresholdReached(n, Len(args[e].BeneficiaryIDs))
       IN /\ errs' = [errs EXCEPT ![e] = n]
          /\ lines' = [lines EXCEPT ![e] = fhirBundleToResourceNDJSON(@, res)]
          /\ staging' = IF res.err THEN appendErrorToFile(e) ELSE staging
          /\ idx' = [idx EXCEPT ![e] = @ + 1]
          /\ failed' = [failed EXCEPT ![e] = stop]
          /\ Goto(e, AfterBene(e, idx[e] + 1, stop))
    /\ UNCHANGED <<status, completedJobCount, jobKeys, payload, stagingDir,
                   payloadDir, cancelled, listing, j, args, ExportFailPct, monitors, attempts,
                   redeliveries, faults>>

\* w.Flush(), the failed branch (lines 237-242) and f.Stat().
\* The same without the failed branch of lines 237-242.
FlushIgnoringFailed(e) ==
    /\ pc[e] = "flush"
    /\ Continue(e, "recordKey")
    /\ UNCHANGED <<shared, args, ExportFailPct, monitors, attempts, redeliveries, faults>>

Flush(e) ==
    /\ pc[e] = "flush"
    /\ Continue(e, IF failed[e] THEN "recordFail" ELSE "recordKey")
    /\ UNCHANGED <<shared, args, ExportFailPct, monitors, attempts, redeliveries, faults>>

(***************************************************************************)
(* worker.go ProcessJob, lines 99-123: record the outcome.                 *)
(***************************************************************************)
\* writeBBDataToFile returned an error: In Progress -> Failed, and on
\* ErrJobNotUpdated the error is returned (lines 105-111).
\* The same with the unconditional UpdateJobStatus for the conditional one.
RecordFailUnchecked(e) ==
    /\ pc[e] = "recordFail"
    /\ status' = UpdateJobStatus(JobStatusFailed)
    /\ Continue(e, "check")
    /\ UNCHANGED <<completedJobCount, jobKeys, staging, payload, stagingDir,
                   payloadDir, args, ExportFailPct, monitors, attempts, redeliveries, faults>>

RecordFail(e) ==
    /\ pc[e] = "recordFail"
    /\ status' = UpdateJobStatusCheckStatus(JobStatusInProgress, JobStatusFailed)
    /\ IF JobUpdated(JobStatusInProgress)
       THEN Continue(e, "check")
       ELSE Return(e, "Retry")
    /\ UNCHANGED <<completedJobCount, jobKeys, staging, payload, stagingDir,
                   payloadDir, args, ExportFailPct, monitors, attempts, redeliveries, faults>>

\* CreateJobKey (lines 113-122); fileSize == 0 gives models.BlankFileName.
RecordKey(e) ==
    /\ pc[e] = "recordKey"
    /\ jobKeys' = jobKeys \cup {JobKey(e, attempts[e], lines[e] = <<>>)}
    /\ Continue(e, "check")
    /\ UNCHANGED <<status, completedJobCount, staging, payload, stagingDir,
                   payloadDir, args, ExportFailPct, monitors, attempts, redeliveries, faults>>

(***************************************************************************)
(* worker.go checkJobCompleteAndCleanup, lines 339-391.                    *)
(***************************************************************************)
\* GetJobByID and the switch on j.Status (lines 340-352).
CheckStatus(e) ==
    /\ pc[e] = "check"
    /\ j' = [j EXCEPT ![e] = status]
    /\ Goto(e, IF isTerminalStatus(status) THEN "incr" ELSE "count")
    /\ UNCHANGED <<shared, cancelled, idx, errs, lines, failed, listing, args, ExportFailPct, monitors,
                   attempts, redeliveries, faults>>

\* The comparison of line 359 written with > for >=.
CountReachedStrict(completedCount) == completedCount > jobCount

\* completedCount >= j.JobCount, line 359.
CountReached(completedCount) == completedCount >= jobCount

\* The completion check run before the delivery's own CreateJobKey: the
\* count it reads lacks that row.
CheckCountBeforeOwnKey(e) ==
    /\ pc[e] = "count"
    /\ Continue(e, IF CountReached(GetJobKeyCount - 1) THEN "readdir" ELSE "incr")
    /\ UNCHANGED <<shared, args, ExportFailPct, monitors, attempts, redeliveries, faults>>

\* GetJobKeyCount and the comparison (lines 354-359).
CheckCount(e) ==
    /\ pc[e] = "count"
    /\ Continue(e, IF CountReached(GetJobKeyCount) THEN "readdir" ELSE "incr")
    /\ UNCHANGED <<shared, args, ExportFailPct, monitors, attempts, redeliveries, faults>>

\* The step after the files of `left` were listed or renamed.
AfterRename(left) == IF left = {} THEN "rmdir" ELSE "rename"

\* ioutil.ReadDir(staging), line 363: an error without the directory.
ReadDir(e) ==
    /\ pc[e] = "readdir"
    /\ IF stagingDir
       THEN /\ listing' = [listing EXCEPT ![e] = staging]
            /\ Goto(e, AfterRename(staging))
            /\ UNCHANGED <<cancelled, idx, errs, lines, failed, j>>
       ELSE Return(e, "Retry")
    /\ UNCHANGED <<shared, args, ExportFailPct, monitors, attempts, redeliveries, faults>>

\* os.Rename(oldPath, newPath) of the next listed file, lines 368-375: an
\* error when the file is no longer in staging.
Rename(e) ==
    /\ pc[e] = "rename"
    /\ LET f == FirstFile(listing[e]) IN
       IF f \in staging
       THEN /\ staging' = staging \ {f}
            /\ payload' = payload \cup {f}
            /\ listing' = [listing EXCEPT ![e] = @ \ {f}]
            /\ Goto(e, AfterRename(listing[e] \ {f}))
            /\ UNCHANGED <<cancelled, idx, errs, lines, failed, j>>
       ELSE /\ Return(e, "Retry")
            /\ UNCHANGED <<staging, payload>>
    /\ UNCHANGED <<status, completedJobCount, jobKeys, stagingDir, payloadDir,
                   args, ExportFailPct, monitors, attempts, redeliveries, faults>>

\* os.Remove(staging), line 377: an error unless the directory exists and
\* is empty.
RemoveStaging(e) ==
    /\ pc[e] = "rmdir"
    /\ IF stagingDir /\ staging = {}
       THEN /\ stagingDir' = FALSE
            /\ Continue(e, "complete")
       ELSE /\ Return(e, "Retry")
            /\ UNCHANGED stagingDir
    /\ UNCHANGED <<status, completedJobCount, jobKeys, staging, payload,
                   payloadDir, args, ExportFailPct, monitors, attempts, redeliveries, faults>>

\* r.UpdateJobStatus(ctx, j.ID, models.JobStatusCompleted), line 381.
Complete(e) ==
    /\ pc[e] = "complete"
    /\ status' = UpdateJobStatus(JobStatusCompleted)
    /\ Continue(e, "incr")
    /\ UNCHANGED <<completedJobCount, jobKeys, staging, payload, stagingDir,
                   payloadDir, args, ExportFailPct, monitors, attempts, redeliveries, faults>>

\* IncrementCompletedJobCount and ProcessJob's return nil, lines 131-137.
Increment(e) ==
    /\ pc[e] = "incr"
    /\ completedJobCount' = completedJobCount + 1
    /\ Return(e, "Ack")
    /\ UNCHANGED <<status, jobKeys, staging, payload, stagingDir, payloadDir,
                   args, ExportFailPct, monitors, attempts, redeliveries, faults>>

(***************************************************************************)
(* The monitor goroutine of a delivery, que.go lines 104-123 and 158-167.  *)
(***************************************************************************)
\* The goroutine lives from line 104 until it called cancel() or the
\* deferred cancel() of processJob's return closed ctx.Done().
MonitorRunning(e) == pc[e] \in InFlight /\ ~cancelled[e]

\* isParentJobCancelled without an error.
isParentJobCancelled == status = JobStatusCancelled

\* parentCancelled of a tick that took an error for a cancellation.
parentCancelledOrError(err) == err \/ isParentJobCancelled

\* parentCancelled of a tick, line 108: isParentJobCancelled returns false
\* together with the error of GetJobByID (line 163).
parentCancelled(err) == IF err THEN FALSE ELSE isParentJobCancelled

\* A tick that finds the parent cancelled: cancel() and return.
MonitorCancel(e) ==
    /\ MonitorRunning(e)
    /\ parentCancelled(FALSE)
    /\ cancelled' = [cancelled EXCEPT ![e] = TRUE]
    /\ monitors' = [monitors EXCEPT ![e] = @ - 1]
    /\ UNCHANGED <<shared, idx, errs, lines, failed, listing, j, args, ExportFailPct,
                   errorCount, pc, attempts, redeliveries, faults>>

\* A tick whose GetJobByID fails: the error is logged (lines 110-112),
\* cancel() is called only if parentCancelled, and the loop goes on.
MonitorPollError(e) ==
    /\ MonitorRunning(e)
    /\ faults < MaxFaults
    /\ faults' = faults + 1
    /\ cancelled' = [cancelled EXCEPT ![e] = parentCancelled(TRUE)]
    /\ monitors' = [monitors EXCEPT ![e] = IF parentCancelled(TRUE) THEN @ - 1 ELSE @]
    /\ UNCHANGED <<shared, idx, errs, lines, failed, listing, j, args, ExportFailPct,
                   errorCount, pc, attempts, redeliveries>>

\* The goroutines of e whose ctx is done: the deferred cancel() of their
\* processJob has run (line 93) and they have not returned yet.
Orphans(e) == monitors[e] - (IF MonitorRunning(e) THEN 1 ELSE 0)

\* The goroutine with a select that has no ctx.Done() case: it returns
\* only from a tick that finds the parent cancelled.
MonitorDoneOnTick(e) ==
    /\ monitors[e] - (IF MonitorRunning(e) THEN 1 ELSE 0) > 0
    /\ parentCancelled(FALSE)
    /\ monitors' = [monitors EXCEPT ![e] = @ - 1]
    /\ UNCHANGED <<shared, delivery, args, ExportFailPct, errorCount, pc, attempts,
                   redeliveries, faults>>

\* case <-ctx.Done(): return (lines 119-120), taken by a goroutine whose
\* processJob has returned.  A tick it takes before that reads the status
\* and changes nothing, cancel() on its ctx being a no-op by then.
MonitorDone(e) ==
    /\ Orphans(e) > 0
    /\ monitors' = [monitors EXCEPT ![e] = @ - 1]
    /\ UNCHANGED <<shared, delivery, args, ExportFailPct, errorCount, pc, attempts,
                   redeliveries, faults>>

(***************************************************************************)
(* The environment.                                                        *)
(***************************************************************************)
\* The API cancels the parent job: Pending or In Progress -> Cancelled.
ExternalCancel ==
    /\ status \in {JobStatusPending, JobStatusInProgress}
    /\ status' = JobStatusCancelled
    /\ UNCHANGED <<completedJobCount, jobKeys, staging, payload, stagingDir,
                   payloadDir, delivery, args, ExportFailPct, monitors, errorCount, pc, attempts, redeliveries, faults>>

\* The steps whose JobStore or file-system call makes ProcessJob (or
\* ValidateJob) return its error.
ReturnsError(e) ==
    \/ pc[e] = "validate" /\ args[e].BBBasePath # ""
    \/ pc[e] \in {"start", "mkdirs", "recordFail", "recordKey", "check",
                  "count", "readdir", "rename", "rmdir", "complete"}

\* A JobStore or file-system call fails for a reason of its own.
TransientError(e) ==
    /\ ReturnsError(e)
    /\ faults < MaxFaults
    /\ faults' = faults + 1
    /\ Return(e, "Retry")
    /\ UNCHANGED <<shared, args, ExportFailPct, monitors, attempts, redeliveries>>

\* os.Create, w.Flush or f.Stat fails: writeBBDataToFile returns the error
\* (lines 181-184, 233-235, 244-247).
IOError(e) ==
    /\ \/ pc[e] = "create" /\ args[e].supported
       \/ pc[e] = "flush"
    /\ faults < MaxFaults
    /\ faults' = faults + 1
    /\ Continue(e, "recordFail")
    /\ UNCHANGED <<shared, args, ExportFailPct, monitors, attempts, redeliveries>>

\* IncrementCompletedJobCount fails: logged, ProcessJob returns nil.
IncrementError(e) ==
    /\ pc[e] = "incr"
    /\ faults < MaxFaults
    /\ faults' = faults + 1
    /\ Return(e, "Ack")
    /\ UNCHANGED <<shared, args, ExportFailPct, monitors, attempts, redeliveries>>

\* The worker dies, or que-go's delete of the entry fails, after ProcessJob
\* made its last write: the entry stays in the queue with its error_count
\* and is delivered again.
AckLost(e) ==
    /\ pc[e] = "incr"
    /\ faults < MaxFaults
    /\ faults' = faults + 1
    /\ completedJobCount' = completedJobCount + 1
    /\ pc' = [pc EXCEPT ![e] = "queued"]
    /\ Forget(e)
    /\ UNCHANGED <<status, jobKeys, staging, payload, stagingDir, payloadDir,
                   args, ExportFailPct, monitors, errorCount, attempts, redeliveries>>

\* What the id parse, getBeneficiary and bundleFunc can give for a
\* beneficiary of a list.
BundleResults == UNION {bundleFunc(id) : id \in BeneficiaryIDs}

Next ==
    \/ \E e \in Entries :
          \/ Dequeue(e)
          \/ Validate(e)
          \/ StartProcess(e)
          \/ MkDirs(e)
          \/ CreateFile(e)
          \/ LoopCancelled(e)
          \/ \E res \in BundleResults : LoopBene(e, res)
          \/ Flush(e)
          \/ RecordFail(e)
          \/ RecordKey(e)
          \/ CheckStatus(e)
          \/ CheckCount(e)
          \/ ReadDir(e)
          \/ Rename(e)
          \/ RemoveStaging(e)
          \/ Complete(e)
          \/ Increment(e)
          \/ MonitorCancel(e)
          \/ MonitorPollError(e)
          \/ MonitorDone(e)
          \/ TransientError(e)
          \/ IOError(e)
          \/ IncrementError(e)
          \/ AckLost(e)
    \/ ExternalCancel

Spec == Init /\ [][Next]_vars

TypeOK ==
    /\ status \in {NoJob, JobStatusPending, JobStatusInProgress,
                   JobStatusCompleted, JobStatusCancelled, JobStatusFailed}
    /\ pc \in [Entries -> InFlight \cup {"queued", "acked", NoEntry}]
    /\ \A e \in Entries : attempts[e] <= MaxRedeliveries + 1 /\ idx[e] <= Len(args[e].BeneficiaryIDs)
    /\ faults <= MaxFaults

(***************************************************************************)
(* Steps of a delivery, as the properties below see them.                  *)
(***************************************************************************)
\* processJob returns an error for the delivery of e: que-go reschedules.
RetryStep(e) == pc[e] \in InFlight /\ pc'[e] = "queued"

\* processJob returns nil for the delivery of e: que-go deletes the entry.
AckStep(e) == pc[e] \in InFlight /\ pc'[e] = "acked"

\* The step is an injected failure of a JobStore or file-system call.
Injected == faults' # faults

\* The job_keys rows written by deliveries of e.
KeysOf(e) == {k \in jobKeys : k.entry = e}

\* The delivery of e in flight has written its job_keys row.
DeliveryWroteKey(e) ==
    /\ pc[e] \in {"check", "count", "readdir", "rename", "rmdir", "complete", "incr"}
    /\ \E k \in jobKeys : k.entry = e /\ k.attempt = attempts[e]

AllAcked == \A e \in Entries : pc[e] = "acked"

(***************************************************************************)
(* Properties.                                                             *)
(***************************************************************************)
\* C1: once the parent's status is Cancelled, Failed or Completed, no step
\* changes it to a different status.
C1_TerminalStatusIsFinal ==
    [][isTerminalStatus(status) => status' = status]_vars

\* C2: a delivery whose monitor fired the cancellation signal does not end
\* in Retry: processJob returns no error of ProcessJob's own making (a
\* Retry on an injected JobStore failure is not counted against the claim).
C2_SignalledDeliveryAcks ==
    [][\A e \in Entries : (cancelled[e] /\ RetryStep(e)) => Injected]_vars

\* C3: once the cancellation signal of a delivery has fired, that delivery
\* writes no JobKey, wherever the beneficiary loop stands.
C3_NoJobKeyAfterSignal ==
    [][\A e \in Entries :
          cancelled[e] => {k \in jobKeys' : k.entry = e} = KeysOf(e)]_vars

\* C4: while the parent is Completed, it has exactly jobCount JobKeys and no
\* file of it is in staging (every staged file is in payload).
C4_CompletedIsWhole ==
    status = JobStatusCompleted =>
        Cardinality(jobKeys) = JobCount /\ staging = {}

\* C5: while the parent is Cancelled or Failed, no file of it has been
\* renamed into payload.
C5_NoPromotionUnlessCompleted ==
    status \in {JobStatusCancelled, JobStatusFailed} => payload = {}

\* C6: the number of JobKeys of the parent never exceeds jobCount.
C6_JobKeysWithinJobCount == Cardinality(jobKeys) <= JobCount

\* C7, as claimed: whenever the number of JobKeys equals jobCount, the
\* parent's status is Completed, Failed or Cancelled.
C7_CountReachedIsTerminal ==
    Cardinality(jobKeys) = JobCount => isTerminalStatus(status)

\* C7, amended: whenever the number of JobKeys equals jobCount and every
\* queue entry of the parent has been acked, the parent's status is
\* Completed, Failed or Cancelled.
C7_CountReachedAndAckedIsTerminal ==
    (Cardinality(jobKeys) = JobCount /\ AllAcked) => isTerminalStatus(status)

\* C7 witness: every entry acked, jobCount JobKeys, the parent Completed.
C7_Witness ==
    /\ AllAcked
    /\ Cardinality(jobKeys) = JobCount
    /\ status = JobStatusCompleted

\* C8: no delivery that wrote a JobKey ends in Retry.
C8_NoJobKeyFromRetriedDelivery ==
    [][\A e \in Entries : RetryStep(e) => ~DeliveryWroteKey(e)]_vars

\* C9: deliveries of the same queue entry write at most one JobKey.
C9_OneJobKeyPerEntry == \A e \in Entries : Cardinality(KeysOf(e)) <= 1

\* C10: of two deliveries that are both past the count check of the
\* completion check, neither ends in Retry by an error of the promotion
\* itself (an injected failure is not counted against the claim).
C10_RacingPromotionsSucceed ==
    [][\A e \in Entries :
          (/\ pc[e] \in Promoting
           /\ \E o \in Entries \ {e} : pc[o] \in Promoting
           /\ RetryStep(e)) => Injected]_vars

\* The delivery of e takes a step of its own.
StepOf(e) == pc'[e] # pc[e]

\* C11: checkJobCompleteAndCleanup on a parent that is Completed returns
\* done at once: no status update, no JobKey count, no file moved or
\* removed, each time it runs.
C11_CheckOnCompletedIsNoOp ==
    [][\A e \in Entries :
          (pc[e] = "check" /\ status = JobStatusCompleted /\ StepOf(e) /\ ~Injected)
              => (pc'[e] = "incr" /\ shared' = shared)]_vars

\* C11 witness: a delivery past its completion check, which read Completed.
C11_Witness ==
    \E e \in Entries :
        pc[e] = "incr" /\ j[e] = JobStatusCompleted /\ status = JobStatusCompleted

\* The delivery of e has its <uuid>.ndjson open: created, the loop or the
\* flush still to come.
Writing(e) == pc[e] \in {"loop", "flush"}

\* The files of the delivery of e in flight.
FilesOf(e) == {f \in staging \cup payload : f.entry = e /\ f.attempt = attempts[e]}

\* C12: no file in payload is still being written: none belongs to a
\* delivery that has beneficiaries left or has not flushed.
C12_PayloadFilesAreWhole ==
    \A e \in Entries : Writing(e) => FilesOf(e) \cap payload = {}

\* Where the table of validation results puts the delivery of e: acked,
\* queued again, or on to ProcessJob.  `other` is an error of GetJobByID
\* that is not ErrJobNotFound.
ValidationTable(e, other) ==
    IF args[e].BBBasePath = "" THEN "acked"
    ELSE IF other THEN "queued"
    ELSE IF status = NoJob
         THEN IF errorCount[e] >= maxNotFoundRetries THEN "acked" ELSE "queued"
    ELSE IF status = JobStatusCancelled THEN "acked"
    ELSE "start"

\* C13: a decodable entry leaves validation as the table says (empty base
\* path: Ack, whatever the parent; Cancelled: Ack; not found: Ack at
\* errorCount >= max, else Retry; another error: Retry), and unless
\* validation succeeded nothing of ProcessJob has run: jobs, job_keys and
\* the directories are as before.
C13_ValidationTable ==
    [][\A e \in Entries :
          (pc[e] = "validate" /\ StepOf(e)) =>
              /\ pc'[e] = ValidationTable(e, Injected)
              /\ shared' = shared
              /\ attempts' = attempts
              /\ pc'[e] = "queued" <=> errorCount'[e] = errorCount[e] + 1]_vars

\* C13 witness: an entry with a base path, acked for a parent never found,
\* and an entry without base path acked although the parent is missing.
C13_Witness ==
    /\ status = NoJob
    /\ \E e \in Entries :
          /\ pc[e] = "acked" /\ args[e].decodable /\ args[e].BBBasePath # ""
          /\ errorCount[e] = maxNotFoundRetries
    /\ \E e \in Entries :
          /\ pc[e] = "acked" /\ args[e].decodable /\ args[e].BBBasePath = ""
          /\ errorCount[e] = 0

(***************************************************************************)
(* The entries of a parent job that is never found.  Only the decode, the  *)
(* validation and a failing GetJobByID can take a step then.  que-go's     *)
(* workers keep polling and reschedule a failed job after a finite         *)
(* backoff, and processJob runs on once started: weak fairness of the      *)
(* delivery and of the validation.                                         *)
(***************************************************************************)
NotFoundInit == Init /\ status = NoJob

NotFoundNext ==
    \E e \in Entries :
        \/ Dequeue(e)
        \/ Validate(e)
        \/ MonitorDone(e)
        \/ TransientError(e)

NotFoundSpec ==
    /\ NotFoundInit
    /\ [][NotFoundNext]_vars
    /\ \A e \in Entries :
          WF_vars(Dequeue(e)) /\ WF_vars(Validate(e)) /\ WF_vars(MonitorDone(e))

\* Deliveries of e so far: every delivery but an acked or a running one
\* ended in an error, which que-go counted in error_count.
Deliveries(e) == errorCount[e] + IF pc[e] = "queued" THEN 0 ELSE 1

\* C14: with the parent never found, a delivery that finds it missing is
\* acked iff errorCount >= MAX_NOT_FOUND_RETRIES and retried otherwise, no
\* entry is delivered more than MAX_NOT_FOUND_RETRIES + 1 times (as long as
\* no lookup failed with another error), and every entry is eventually off
\* the queue for good.
C14_NotFoundBudget ==
    /\ [][\A e \in Entries :
            (pc[e] = "validate" /\ args[e].BBBasePath # "" /\ StepOf(e) /\ ~Injected)
                => IF errorCount[e] >= maxNotFoundRetries
                   THEN pc'[e] = "acked"
                   ELSE pc'[e] = "queued" /\ errorCount'[e] = errorCount[e] + 1]_vars
    /\ [](faults = 0 => \A e \in Entries : Deliveries(e) <= maxNotFoundRetries + 1)
    /\ <>[]AllAcked

\* C14 witness: an entry acked on its delivery number
\* MAX_NOT_FOUND_RETRIES + 1, each earlier one having found no parent.
C14_Witness ==
    \E e \in Entries :
        /\ status = NoJob /\ faults = 0
        /\ args[e].decodable /\ args[e].BBBasePath # ""
        /\ pc[e] = "acked"
        /\ Deliveries(e) = maxNotFoundRetries + 1

\* C15: the delivery of an entry whose Args do not decode is acked in one
\* step that leaves jobs, job_keys and the directories as they were, and
\* such an entry never reaches ValidateJob (no read of the parent), never
\* has a monitor, a JobKey or a file.
C15_UndecodableIsAcked ==
    /\ [][\A e \in Entries :
            (~args[e].decodable /\ StepOf(e)) =>
                /\ pc[e] = "queued" /\ pc'[e] = "acked"
                /\ shared' = shared
                /\ errorCount' = errorCount]_vars
    /\ [](\A e \in Entries :
            ~args[e].decodable =>
                /\ pc[e] \notin InFlight
                /\ ~cancelled[e]
                /\ KeysOf(e) = {}
                /\ {f \in staging \cup payload : f.entry = e} = {})

\* C15 witness: an undecodable entry acked on its first delivery while the
\* other entry is still being processed.
C15_Witness ==
    \E e \in Entries :
        /\ ~args[e].decodable /\ pc[e] = "acked" /\ errorCount[e] = 0
        /\ \E o \in Entries \ {e} : pc[o] \in InFlight

\* C16: the parent's completedJobCount never exceeds its jobCount.  (The
\* other half of the claim, that the promotion is decided by the JobKey
\* count and the status alone, is how CheckStatus and CheckCount read.)
C16_CompletedJobCountWithinJobCount == completedJobCount <= JobCount

\* A monitor's poll failed: the only injected failure that leaves every
\* delivery where it is.
PollErrorStep == Injected /\ pc' = pc

\* C17: a delivery's signal fires only in a tick of its running monitor
\* that read the parent as Cancelled without error; a tick whose poll
\* fails fires no signal and leaves the monitor running.
C17_SignalOnlyAfterCancelledRead ==
    [][/\ \A e \in Entries :
             (cancelled'[e] /\ ~cancelled[e]) =>
                 (MonitorRunning(e) /\ status = JobStatusCancelled /\ ~Injected)
       /\ PollErrorStep => cancelled' = cancelled]_vars

\* C17 witness: the signal of a first delivery has fired after a failed
\* poll of its monitor (nothing else has run that could have failed).
C17_Witness ==
    \E e \in Entries :
        /\ cancelled[e] /\ pc[e] = "loop" /\ attempts[e] = 1
        /\ faults = 1
        /\ \A o \in Entries : errorCount[o] = 0
        /\ \A o \in Entries \ {e} : pc[o] = "queued" /\ attempts[o] = 0

(***************************************************************************)
(* A parent job of one queue entry (the job of TestProcessJob): entry 1 is *)
(* enqueued with valid args, no other entry exists.  A worker that has     *)
(* locked an entry runs processJob to its return: weak fairness of the     *)
(* worker's steps.                                                         *)
(***************************************************************************)
SingleInit ==
    /\ status = JobStatusPending
    /\ completedJobCount = 0
    /\ jobKeys = {}
    /\ staging = {}
    /\ payload = {}
    /\ stagingDir = FALSE
    /\ payloadDir = FALSE
    /\ args \in [Entries -> {JobArgs(TRUE, "bb", TRUE, n) : n \in {0, 1}}]
    /\ ExportFailPct = EnvNotANumber
    /\ monitors = [e \in Entries |-> 0]
    /\ errorCount = [e \in Entries |-> 0]
    /\ pc = [e \in Entries |-> IF e = 1 THEN "queued" ELSE NoEntry]
    /\ attempts = [e \in Entries |-> 0]
    /\ redeliveries = 0
    /\ faults = 0
    /\ cancelled = [e \in Entries |-> FALSE]
    /\ idx = [e \in Entries |-> 0]
    /\ errs = [e \in Entries |-> 0]
    /\ lines = [e \in Entries |-> <<>>]
    /\ failed = [e \in Entries |-> FALSE]
    /\ listing = [e \in Entries |-> {}]
    /\ j = [e \in Entries |-> NotRead]

\* The steps of the worker that holds entry e.
WorkerStep(e) ==
    \/ Dequeue(e)
    \/ Validate(e)
    \/ StartProcess(e)
    \/ MkDirs(e)
    \/ CreateFile(e)
    \/ LoopCancelled(e)
    \/ \E res \in BundleResults : LoopBene(e, res)
    \/ Flush(e)
    \/ RecordFail(e)
    \/ RecordKey(e)
    \/ CheckStatus(e)
    \/ CheckCount(e)
    \/ ReadDir(e)
    \/ Rename(e)
    \/ RemoveStaging(e)
    \/ Complete(e)
    \/ Increment(e)

SingleSpec ==
    /\ SingleInit
    /\ [][Next]_vars
    /\ \A e \in Entries : WF_vars(WorkerStep(e)) /\ WF_vars(MonitorDone(e))

\* Entry e has an empty beneficiary list.
EmptyList(e) == pc[e] # NoEntry /\ Len(args[e].BeneficiaryIDs) = 0

TenBeneficiaries == JobArgs(TRUE, "bb", TRUE, 10)

TenInit ==
    /\ status = JobStatusPending
    /\ completedJobCount = 0
    /\ jobKeys = {}
    /\ staging = {}
    /\ payload = {}
    /\ stagingDir = FALSE
    /\ payloadDir = FALSE
    /\ args = [e \in Entries |-> TenBeneficiaries]
    /\ ExportFailPct = EnvNotANumber
    /\ monitors = [e \in Entries |-> 0]
    /\ errorCount = [e \in Entries |-> 0]
    /\ pc = [e \in Entries |-> IF e = 1 THEN "queued" ELSE NoEntry]
    /\ attempts = [e \in Entries |-> 0]
    /\ redeliveries = 0
    /\ faults = 0
    /\ cancelled = [e \in Entries |-> FALSE]
    /\ idx = [e \in Entries |-> 0]
    /\ errs = [e \in Entries |-> 0]
    /\ lines = [e \in Entries |-> <<>>]
    /\ failed = [e \in Entries |-> FALSE]
    /\ listing = [e \in Entries |-> {}]
    /\ j = [e \in Entries |-> NotRead]

TenSpec == TenInit /\ [][Next]_vars

\* The step is an iteration of e's loop that sets failed (lines 226-229).
ThresholdStep(e) == idx'[e] # idx[e] /\ failed'[e] /\ ~failed[e]

ArtifactIOFailed(e) ==
    pc[e] = "recordFail" /\ args[e].supported /\ ~failed[e]

\* C20: the delivery of an entry whose staging file could not be created
\* or flushed ends in Retry, and no step of it moves the parent to Failed.
C20_ArtifactIOErrorRetries ==
    [][\A e \in Entries :
          (ArtifactIOFailed(e) /\ StepOf(e)) =>
              /\ RetryStep(e)
              /\ status' = JobStatusFailed => status = JobStatusFailed]_vars

\* C21: the parent becomes Failed only in a step that finds it In Progress:
\* a parent that is Pending, Cancelled or Completed when a worker's update
\* runs does not become Failed.
C21_FailedOnlyFromInProgress ==
    [][(status' = JobStatusFailed /\ status # JobStatusFailed)
          => status = JobStatusInProgress]_vars

\* C21 witness: a delivery whose export failed has made the update and the
\* parent is Failed, while the other entry's failed export found the
\* parent no longer In Progress and was sent back to the queue.
C21_Witness ==
    \E e \in Entries :
        /\ pc[e] = "check" /\ status = JobStatusFailed
        /\ \A k \in jobKeys : ~(k.entry = e /\ k.attempt = attempts[e])
        /\ \E o \in Entries \ {e} :
              pc[o] = "queued" /\ attempts[o] = 1 /\ errorCount[o] = 1 /\ faults = 0

(***************************************************************************)
(* A parent job of one queue entry whose worker runs with EXPORT_FAIL_PCT  *)
(* set to one of EnvValues and whose list has one of ListLengths           *)
(* beneficiaries; the parent is not cancelled and no call fails but the    *)
(* upstream's.                                                             *)
(***************************************************************************)
ListLengths == {1, 2, 50}

EnvValues ==
    {EnvNotANumber, EnvNumber(-1), EnvNumber(0), EnvNumber(58), EnvNumber(100),
     EnvNumber(101)}

ThresholdInit ==
    /\ status = JobStatusPending
    /\ completedJobCount = 0
    /\ jobKeys = {}
    /\ staging = {}
    /\ payload = {}
    /\ stagingDir = FALSE
    /\ payloadDir = FALSE
    /\ args \in [Entries -> {JobArgs(TRUE, "bb", TRUE, n) : n \in ListLengths}]
    /\ \A e \in Entries : args[e] = args[1]
    /\ ExportFailPct \in EnvValues
    /\ monitors = [e \in Entries |-> 0]
    /\ errorCount = [e \in Entries |-> 0]
    /\ pc = [e \in Entries |-> IF e = 1 THEN "queued" ELSE NoEntry]
    /\ attempts = [e \in Entries |-> 0]
    /\ redeliveries = 0
    /\ faults = 0
    /\ cancelled = [e \in Entries |-> FALSE]
    /\ idx = [e \in Entries |-> 0]
    /\ errs = [e \in Entries |-> 0]
    /\ lines = [e \in Entries |-> <<>>]
    /\ failed = [e \in Entries |-> FALSE]
    /\ listing = [e \in Entries |-> {}]
    /\ j = [e \in Entries |-> NotRead]

\* The steps of a worker on e when nothing disturbs the delivery: no
\* cancellation, no injected error.
ThresholdNext ==
    \E e \in Entries :
        \/ Dequeue(e)
        \/ Validate(e)
        \/ StartProcess(e)
        \/ MkDirs(e)
        \/ CreateFile(e)
        \/ \E res \in BundleResults : LoopBene(e, res)
        \/ Flush(e)
        \/ RecordFail(e)
        \/ RecordKey(e)
        \/ CheckStatus(e)
        \/ CheckCount(e)
        \/ ReadDir(e)
        \/ Rename(e)
        \/ RemoveStaging(e)
        \/ Complete(e)
        \/ Increment(e)

ThresholdSpec == ThresholdInit /\ [][ThresholdNext]_vars

\* The failure ratio of n failed of the entry's beneficiaries has reached
\* the threshold: 100 * n / total >= threshold, in exact arithmetic.
RatioReached(e, n) ==
    100 * n >= getFailureThreshold(ExportFailPct) * Len(args[e].BeneficiaryIDs)

\* The smallest failed count whose ratio reaches the threshold.
SmallestReaching(e) ==
    CHOOSE n \in 0..Len(args[e].BeneficiaryIDs) :
        /\ RatioReached(e, n)
        /\ \A m \in 0..(n - 1) : ~RatioReached(e, m)

\* A step of the beneficiary loop of e that handled one beneficiary.
BeneStep(e) == idx'[e] = idx[e] + 1

\* C22: handling a beneficiary marks the entry failed and leaves the loop
\* exactly when 100 * failedCount / total >= threshold afterwards, the
\* threshold being EXPORT_FAIL_PCT clamped to [0,100] and 50 when it is not
\* a number; below the threshold a failed beneficiary only adds one to
\* failedCount and the loop goes on; failedCount never exceeds the smallest
\* count that reaches the threshold (the first beneficiary apart, which is
\* handled before any ratio is computed).
C22_StopsExactlyAtThreshold ==
    [][\A e \in Entries :
          BeneStep(e) =>
              /\ failed'[e] <=> RatioReached(e, errs'[e])
              /\ failed'[e] => pc'[e] = "flush"
              /\ ~failed'[e] =>
                    /\ errs'[e] \in {errs[e], errs[e] + 1}
                    /\ pc'[e] = "loop" \/ idx'[e] = Len(args[e].BeneficiaryIDs)
              /\ errs'[e] <= SmallestReaching(e) \/ idx[e] = 0]_vars

\* C23: whatever the threshold in [0,100], an entry none of whose
\* beneficiaries failed and whose delivery was not cancelled is never
\* marked failed by the threshold test; this includes threshold 0 with a
\* non-empty list.
C23_NoFailureWithoutFailedBeneficiary ==
    \A e \in Entries : (errs[e] = 0 /\ ~cancelled[e]) => ~failed[e]

(***************************************************************************)
(* A parent job of one queue entry whose list is made of beneficiaries the *)
(* upstream answers in a fixed way, up to MaxListLen of them.              *)
(***************************************************************************)
MaxListLen == 3

KnownLists ==
    UNION {[1..n -> BeneficiaryIDs \ {AnyBeneficiary}] : n \in 0..MaxListLen}

OrderInit ==
    /\ status = JobStatusPending
    /\ completedJobCount = 0
    /\ jobKeys = {}
    /\ staging = {}
    /\ payload = {}
    /\ stagingDir = FALSE
    /\ payloadDir = FALSE
    /\ \E l \in KnownLists :
          args = [e \in Entries |->
                    [JobArgs(TRUE, "bb", TRUE, 0) EXCEPT !.BeneficiaryIDs = l]]
    /\ ExportFailPct = EnvNumber(100)
    /\ monitors = [e \in Entries |-> 0]
    /\ errorCount = [e \in Entries |-> 0]
    /\ pc = [e \in Entries |-> IF e = 1 THEN "queued" ELSE NoEntry]
    /\ attempts = [e \in Entries |-> 0]
    /\ redeliveries = 0
    /\ faults = 0
    /\ cancelled = [e \in Entries |-> FALSE]
    /\ idx = [e \in Entries |-> 0]
    /\ errs = [e \in Entries |-> 0]
    /\ lines = [e \in Entries |-> <<>>]
    /\ failed = [e \in Entries |-> FALSE]
    /\ listing = [e \in Entries |-> {}]
    /\ j = [e \in Entries |-> NotRead]

OrderSpec == OrderInit /\ [][Next]_vars

\* The resources of the bundle the upstream gives for a known beneficiary,
\* in bundle-entry order.
ResourcesOf(id) ==
    LET b == CHOOSE r \in bundleFunc(id) : TRUE
    IN IF b.err THEN <<>>
       ELSE SelectSeq(b.Entries, LAMBDA x : x # NoResource)

\* The resources of the first k beneficiaries of a list, beneficiary by
\* beneficiary in list order.
RECURSIVE InListOrder(_, _)
InListOrder(l, k) ==
    IF k = 0 THEN <<>> ELSE InListOrder(l, k - 1) \o ResourcesOf(l[k])

FairSpec ==
    /\ Init
    /\ [][Next]_vars
    /\ \A e \in Entries : WF_vars(WorkerStep(e)) /\ WF_vars(MonitorDone(e))

\* The same pool working a parent job of one queue entry, with any args,
\* enqueued before or after the admitter created the parent's row.
OneEntryInit ==
    /\ status \in {JobStatusPending, NoJob}
    /\ completedJobCount = 0
    /\ jobKeys = {}
    /\ staging = {}
    /\ payload = {}
    /\ stagingDir = FALSE
    /\ payloadDir = FALSE
    /\ args \in [Entries -> ArgVariants]
    /\ \A e \in Entries : args[e] = args[1]
    /\ ExportFailPct = EnvNotANumber
    /\ monitors = [e \in Entries |-> 0]
    /\ errorCount = [e \in Entries |-> 0]
    /\ pc = [e \in Entries |-> IF e = 1 THEN "queued" ELSE NoEntry]
    /\ attempts = [e \in Entries |-> 0]
    /\ redeliveries = 0
    /\ faults = 0
    /\ cancelled = [e \in Entries |-> FALSE]
    /\ idx = [e \in Entries |-> 0]
    /\ errs = [e \in Entries |-> 0]
    /\ lines = [e \in Entries |-> <<>>]
    /\ failed = [e \in Entries |-> FALSE]
    /\ listing = [e \in Entries |-> {}]
    /\ j = [e \in Entries |-> NotRead]

MonitorSpec ==
    /\ OneEntryInit
    /\ [][Next]_vars
    /\ \A e \in Entries : WF_vars(WorkerStep(e)) /\ WF_vars(MonitorDone(e))

\* C25: every monitor goroutine a delivery starts returns in the end: after
\* processJob has returned, whatever it returned and from wherever (acked
\* or left for a retry, the goroutines of the entry are gone in the end),
\* and in the very step in which it calls cancel(); none is left polling
\* for an entry that is no longer in flight.
C25_MonitorTerminates ==
    /\ \A e \in Entries : (monitors[e] > 0) ~> (monitors[e] = 0)
    /\ \A e \in Entries : (pc[e] \notin InFlight) ~> (monitors[e] = 0)
    /\ [][\A e \in Entries :
            (cancelled'[e] /\ ~cancelled[e]) =>
                monitors'[e] = monitors[e] - 1]_vars
    /\ [](\A e \in Entries : MonitorRunning(e) => monitors[e] = 1)

\* C25 witness: a delivery that ran ProcessJob has returned an error, the
\* entry waits for its retry and the delivery's monitor has not returned
\* yet.
C25_Witness ==
    \E e \in Entries :
        /\ pc[e] = "queued" /\ attempts[e] = 1 /\ errorCount[e] = 1
        /\ ~cancelled[e] /\ monitors[e] = 1

\* The delivery of e left its loop because the failure threshold was
\* reached: failed is set, beneficiaries have failed and their ratio is at
\* the threshold.
ThresholdFailure(e) ==
    failed[e] /\ errs[e] > 0 /\ RatioReached(e, errs[e])

\* C26: in a delivery whose streaming failed on the threshold, ProcessJob's
\* update of a parent that is In Progress makes it Failed and goes on to
\* the completion check; no step of the delivery adds a JobKey; the
\* completion check changes nothing in the store or the directories; and
\* the delivery ends acked, its error count untouched (steps with an
\* injected error apart).
C26_ThresholdFailureIsAcked ==
    [][\A e \in Entries :
          (ThresholdFailure(e) /\ StepOf(e) /\ ~Injected) =>
              /\ jobKeys' = jobKeys
              /\ (pc[e] = "recordFail" /\ status = JobStatusInProgress) =>
                    status' = JobStatusFailed /\ pc'[e] = "check"
              /\ pc[e] = "check" => pc'[e] = "incr" /\ shared' = shared
              /\ pc[e] = "incr" =>
                    pc'[e] = "acked" /\ errorCount'[e] = errorCount[e]
              /\ pc'[e] # "queued" \/ pc[e] = "recordFail"]_vars

\* C26 witness: an entry was acked by its first delivery without an error
\* counted or injected; its beneficiary failed (the error file is in
\* staging), the parent is Failed and no JobKey of the entry exists.
C26_Witness ==
    \E e \in Entries :
        /\ pc[e] = "acked" /\ attempts[e] = 1 /\ errorCount[e] = 0
        /\ faults = 0
        /\ ErrorFile(e, 1) \in staging
        /\ status = JobStatusFailed
        /\ \A k \in jobKeys : k.entry # e

\* Every entry of the parent has been processed successfully: a delivery of
\* it streamed its beneficiaries and recorded a JobKey.
AllProcessed == \A e \in Entries : KeysOf(e) # {}

\* An entry waits for a redelivery that the bound on redeliveries rules out.
Exhausted ==
    \E e \in Entries :
        pc[e] = "queued" /\ attempts[e] > 0 /\ redeliveries >= MaxRedeliveries

C28_CompletedOnlyWhenAllProcessed ==
    (status = JobStatusCompleted \/ payload # {}) => AllProcessed

=============================================================================
